---- MODULE Spec2Model ----
(***************************************************************************)
(* Model of batchburn_main.py: the folder scanner, the persisted per-folder *)
(* burn_state.json, mark_done and the batch run with its progress counters. *)
(* The external tools (ffmpeg, ffprobe) and the file system are the         *)
(* environment: their outcomes are chosen nondeterministically.             *)
(***************************************************************************)
EXTENDS Integers, Sequences, FiniteSets, TLC

\* ------------------------------------------------------------------ bounds
\* Number of distinct input video names a user may place in a source folder.
NumFiles == 2

\* Number of user operations (copy a video, delete a state file, Select Folder,
\* Start, close the application) explored in one behaviour.
MaxOps == 6

\* ------------------------------------------------------- files and folders
\* File names as (stem, extension), the split os.path.splitext makes.
InputNames ==
  << [stem |-> "a", ext |-> ".mkv"],
     [stem |-> "a", ext |-> ".mp4"],
     [stem |-> "b", ext |-> ".mkv"],
     [stem |-> "c", ext |-> ".mkv"] >>

Names == { InputNames[i] : i \in 1..NumFiles }

video_exts == {".mkv", ".mp4", ".avi", ".mov", ".m4v", ".webm"}

StateFileName == [stem |-> "burn_state", ext |-> ".json"]

\* output_f = <stem>-burned.mp4
OutName(f) == [stem |-> f.stem \o "-burned", ext |-> ".mp4"]

\* Directories below the selected root, in the order os.walk visits them.
WalkOrder == << "R/F", "R/F-burned" >>

Dirs == { WalkOrder[i] : i \in 1..Len(WalkOrder) }

\* Folders a user drops input videos into.
SourceDirs == { "R/F" }

\* outfolder = folder + "-burned"
OutDir(d) == d \o "-burned"

\* Every video name that can exist in the modelled directories, in the
\* order a directory listing returns them.
ListOrder ==
  [ i \in 1..(2 * NumFiles) |->
      IF i <= NumFiles THEN InputNames[i] ELSE OutName(InputNames[i - NumFiles]) ]

RECURSIVE ListFrom(_, _)
ListFrom(i, S) ==
  IF i > Len(ListOrder) THEN << >>
  ELSE IF ListOrder[i] \in S /\ \A j \in 1..(i - 1) : ListOrder[j] # ListOrder[i]
       THEN << ListOrder[i] >> \o ListFrom(i + 1, S)
       ELSE ListFrom(i + 1, S)

AllVideos == { ListOrder[i] : i \in 1..Len(ListOrder) }

InSeq(x, s) == \E i \in 1..Len(s) : s[i] = x

Range(s) == { s[i] : i \in 1..Len(s) }

\* ------------------------------------------------------------------- state
VARIABLES
  videos,            \* disk: the video files directly inside each directory
  stateFile,         \* disk: burn_state.json of each directory
  folders,           \* the global folder registry (dict filled by select_folder)
  total_tasks,       \* global counter
  completed_tasks,   \* global counter
  pc,                \* position of the background run thread
  best,              \* run(): [bestav1, best265, best264]
  fi,                \* run(): position of the iteration over folders.items()
  folder,            \* run(): the folder being processed
  snapshot,          \* run(): list(data["files"]) of that folder
  pos,               \* run(): position in the snapshot
  num_files,         \* run(): len(data["files"])
  processed_in_folder, \* run(): per-folder counter
  processed,         \* history: files handled by the run in progress, per folder
  globalSeq,         \* history: values passed to ui_set_global_progress by the run
  folderSeq,         \* history: values passed to ui_set_progress by the run, per folder
  last,              \* history: what happened to the file processed last
  lastOp,            \* history: the operation that produced this state
  ops,               \* history: number of user operations so far
  available,         \* the encoders handed to pick_best_encoder (PickSpec)
  thr,               \* the run threads started by threaded_run (ConcSpec)
  ui,                \* position of the UI thread inside select_folder (ConcSpec)
  workers,           \* getallmyencoders: the pool workers, one per test_group call
  tests,             \* history: the outcomes of the trial encodes of each candidate
  getall,            \* getallmyencoders: position of the calling thread
  fut,               \* getallmyencoders: index of the future it waits for
  final_results,     \* getallmyencoders: the merged dict, in insertion order
  true_encodings     \* getallmyencoders: the list returned

vars ==
  << videos, stateFile, folders, total_tasks, completed_tasks, pc, best, fi, folder,
     snapshot, pos, num_files, processed_in_folder, processed, globalSeq, folderSeq,
     last, lastOp, ops, available, thr, ui, workers, tests, getall, fut,
     final_results, true_encodings >>

\* The variables the sequential specification leaves alone.
\* The state of one call of getallmyencoders.
discovery == << workers, tests, getall, fut, final_results, true_encodings >>

aside == << available, thr, ui, discovery >>

runLocals == << best, fi, folder, snapshot, pos, num_files, processed_in_folder >>

histories == << processed, globalSeq, folderSeq >>

\* A missing burn_state.json.
NoState == [exists |-> FALSE, finished |-> << >>, pending |-> << >>]

\* A directory that is not a key of the registry.
NoFolder == [present |-> FALSE, files |-> << >>, done |-> << >>, selected_sub |-> ""]

NoLast ==
  [folder |-> "", f |-> [stem |-> "", ext |-> ""], sub_idx |-> "None",
   input_is_10bit |-> FALSE, extract |-> "skipped", burn |-> "none",
   chosen_encoder |-> "", vf_option |-> "", marked |-> FALSE,
   was_finished |-> FALSE, was_pending |-> FALSE, had_state |-> FALSE,
   sidecar_left |-> FALSE]

EmptyByDir == [d \in Dirs |-> << >>]

\* The candidate encoders, per codec family, in the order they are tested.
codec_groups ==
  [av1 |-> << "av1_nvenc", "av1_amf", "av1_qsv" >>,
   hevc |-> << "hevc_nvenc", "hevc_amf", "hevc_qsv" >>,
   h264 |-> << "h264_nvenc", "h264_amf", "h264_qsv" >>]

Candidates == UNION { Range(codec_groups[g]) : g \in DOMAIN codec_groups }

\* The families in the order of codec_groups.values().
FamilyOrder == << "av1", "hevc", "h264" >>

\* No call of getallmyencoders is in progress.
NoDiscovery ==
  /\ workers = [g \in DOMAIN codec_groups |-> [pc |-> "none", i |-> 0, results |-> << >>]]
  /\ tests = [enc \in Candidates |-> << >>]
  /\ getall = "idle"
  /\ fut = 0
  /\ final_results = << >>
  /\ true_encodings = << >>

\* Names of the run threads a behaviour may start.
Threads == {"t1", "t2"}

\* A thread that was not started.
NoThread ==
  [pc |-> "none", used |-> 0, fi |-> 0, folder |-> "", snapshot |-> << >>, pos |-> 0,
   began |-> EmptyByDir, handled |-> EmptyByDir]

FreshDisk ==
  /\ videos = [d \in Dirs |-> {}]
  /\ stateFile = [d \in Dirs |-> NoState]

\* The globals and the run thread after start-up.
FreshMemory ==
  /\ folders = [d \in Dirs |-> NoFolder]
  /\ total_tasks = 0
  /\ completed_tasks = 0
  /\ pc = "idle"
  /\ best = << "", "", "" >>
  /\ fi = 0
  /\ folder = ""
  /\ snapshot = << >>
  /\ pos = 0
  /\ num_files = 0
  /\ processed_in_folder = 0
  /\ processed = EmptyByDir
  /\ globalSeq = << >>
  /\ folderSeq = EmptyByDir
  /\ last = NoLast
  /\ lastOp = "init"
  /\ ops = 0

Init ==
  /\ FreshDisk
  /\ FreshMemory
  /\ available = {}
  /\ thr = [t \in Threads |-> NoThread]
  /\ ui = "idle"
  /\ NoDiscovery

\* A user operation, counted against MaxOps.
UserOp ==
  /\ ops < MaxOps
  /\ ops' = ops + 1

\* ------------------------------------------------------------ environment
\* The user copies a new video into a source folder while no run is active.
AddVideo ==
  /\ pc = "idle"
  /\ UNCHANGED aside
  /\ UserOp
  /\ \E d \in SourceDirs, f \in Names :
       /\ f \notin videos[d]
       /\ videos' = [videos EXCEPT ![d] = @ \cup {f}]
  /\ last' = NoLast
  /\ lastOp' = "add"
  /\ UNCHANGED << stateFile, folders, total_tasks, completed_tasks, pc, runLocals, histories >>

\* The user deletes a folder's burn_state.json while no run is active.
DeleteStateFile ==
  /\ pc = "idle"
  /\ UNCHANGED aside
  /\ UserOp
  /\ \E d \in Dirs :
       /\ stateFile[d].exists
       /\ stateFile' = [stateFile EXCEPT ![d] = NoState]
  /\ last' = NoLast
  /\ lastOp' = "delete"
  /\ UNCHANGED << videos, folders, total_tasks, completed_tasks, pc, runLocals, histories >>

\* ------------------------------------------------------------ scan_folders
\* os.walk's file list of a directory: its videos and its state file.
DirFiles(d) == videos[d] \cup (IF stateFile[d].exists THEN {StateFileName} ELSE {})

direct_videos(d) == ListFrom(1, { f \in DirFiles(d) : f.ext \in video_exts })

\* done, as scan_folders binds it.
ScanDone(sf) == IF sf.exists THEN sf.finished ELSE << >>

\* Faulty variant: recomputes pending without excluding the finished files.
ScanPendingNoFilter(sf, dv) ==
  IF sf.exists THEN (IF sf.pending = << >> THEN dv ELSE sf.pending) ELSE dv

\* pending, as scan_folders binds it: the stored list, recomputed when empty.
ScanPending(sf, dv) ==
  IF sf.exists
  THEN IF sf.pending = << >>
       THEN SelectSeq(dv, LAMBDA f : ~InSeq(f, sf.finished))
       ELSE sf.pending
  ELSE dv

\* What json.dump(state, f) writes: the dict as loaded, or the fresh one.
ScanSaved(sf, dv) ==
  IF sf.exists THEN sf ELSE [exists |-> TRUE, finished |-> << >>, pending |-> dv]

ProbeResults == {"subs", "nosubs", "fail"}

SubDesc == "ass (jpn):2"

\* Auto-selection: the first (preferred-language) descriptor, or nothing.
AutoSelect(probe) == IF probe = "subs" THEN SubDesc ELSE ""

\* The directories that directly hold a video, in walk order.
Qualifying == SelectSeq(WalkOrder, LAMBDA d : direct_videos(d) # << >>)

\* Index in Qualifying of the first folder whose get_streams raises; 0 if none.
FailAt(probe) ==
  LET bad == { i \in 1..Len(Qualifying) : probe[Qualifying[i]] = "fail" }
  IN IF bad = {} THEN 0 ELSE CHOOSE i \in bad : \A j \in bad : i <= j

\* The folders whose state file scan_folders (re)writes before it ends.
ScanWritten(probe) ==
  { Qualifying[i] : i \in { k \in 1..Len(Qualifying) : FailAt(probe) = 0 \/ k <= FailAt(probe) } }

ScanRecord(d, probe) ==
  [present |-> TRUE,
   files |-> ScanPending(stateFile[d], direct_videos(d)),
   done |-> ScanDone(stateFile[d]),
   selected_sub |-> AutoSelect(probe[d])]

\* The mapping scan_folders returns (when no probe raises).
scan_folders(probe) ==
  [d \in Dirs |-> IF d \in Range(Qualifying) THEN ScanRecord(d, probe) ELSE NoFolder]

RECURSIVE SumFiles(_, _)
SumFiles(reg, i) ==
  IF i > Len(WalkOrder) THEN 0
  ELSE (IF reg[WalkOrder[i]].present THEN Len(reg[WalkOrder[i]].files) ELSE 0)
       + SumFiles(reg, i + 1)

\* select_folder: clear the registry, rescan, recount.  A probe that raises
\* ends the callback after folders.clear() and after the state files of the
\* folders visited so far were written.
select_folder ==
  /\ pc = "idle"
  /\ UNCHANGED aside
  /\ UserOp
  /\ \E probe \in [Dirs -> ProbeResults] :
       /\ \A d \in Dirs : d \notin Range(Qualifying) => probe[d] = "nosubs"
       /\ stateFile' =
            [d \in Dirs |->
               IF d \in ScanWritten(probe)
               THEN ScanSaved(stateFile[d], direct_videos(d))
               ELSE stateFile[d]]
       /\ IF FailAt(probe) = 0
          THEN /\ folders' = scan_folders(probe)
               /\ total_tasks' = SumFiles(scan_folders(probe), 1)
               /\ completed_tasks' = 0
               /\ lastOp' = "scan"
          ELSE /\ folders' = [d \in Dirs |-> NoFolder]
               /\ UNCHANGED << total_tasks, completed_tasks >>
               /\ lastOp' = "scan_failed"
  /\ last' = NoLast
  /\ UNCHANGED << videos, pc, runLocals, histories >>

\* --------------------------------------------------------------- mark_done
\* list.remove: drops the first occurrence only.
RECURSIVE RemoveFirst(_, _)
RemoveFirst(s, x) ==
  IF s = << >> THEN << >>
  ELSE IF Head(s) = x THEN Tail(s)
       ELSE << Head(s) >> \o RemoveFirst(Tail(s), x)

\* The state mark_done reads: the file's content, or the empty state.
MarkLoad(sf) == IF sf.exists THEN sf ELSE [exists |-> TRUE, finished |-> << >>, pending |-> << >>]

\* Faulty variant: appends without looking whether f is already finished.
MarkFinishedAlwaysAppends(fin, f) == Append(fin, f)

MarkFinished(fin, f) == IF InSeq(f, fin) THEN fin ELSE Append(fin, f)

\* Faulty variant: leaves f in pending.
MarkPendingKeeps(pend, f) == pend

\* Faulty variant: drops the head of pending instead of f.
MarkPendingPopsFirst(pend, f) == IF InSeq(f, pend) THEN Tail(pend) ELSE pend

MarkPending(pend, f) == IF InSeq(f, pend) THEN RemoveFirst(pend, f) ELSE pend

\* The content of burn_state.json after mark_done(folder, f).
mark_done(sf, f) ==
  [exists |-> TRUE,
   finished |-> MarkFinished(MarkLoad(sf).finished, f),
   pending |-> MarkPending(MarkLoad(sf).pending, f)]

\* ------------------------------------------------------- encoder selection
\* What the trial encode of one candidate does: it succeeds, runs into the
\* timeout (TimeoutExpired), exits with an error (CalledProcessError), or the
\* tool cannot be started at all (FileNotFoundError, an OSError).
TrialResults == {"ok", "timeout", "error", "oserror"}

\* Faulty variant: a trial that ran into the timeout counts as available.
test_encoderTimeoutOk(result) == result \in {"ok", "timeout"}

\* test_encoder returns (name, True) or, on a SubprocessError, (name, False).
test_encoder(result) == result = "ok"

\* test_encoder catches subprocess.SubprocessError only: an OSError leaves it.
TrialRaises(result) == result \notin {"ok", "timeout", "error"}

\* getallmyencoders raises when a worker raised (future.result()).
DiscoveryRaises(trial) == \E enc \in Candidates : TrialRaises(trial[enc])

\* Otherwise it returns the candidates whose trial returned True.
getallmyencoders(trial) == { enc \in Candidates : test_encoder(trial[enc]) }

\* The machines modelled, as the trial outcome of every candidate: no usable
\* hardware encoder; Intel and AMD hardware without AV1; no ffmpeg to start.
NoHardware == [enc \in Candidates |-> "error"]

IntelAmd ==
  [enc \in Candidates |->
     IF enc \in {"hevc_qsv", "hevc_amf", "h264_amf"} THEN "ok"
     ELSE IF enc \in Range(codec_groups.av1) THEN "timeout"
     ELSE "error"]

NoTool == [enc \in Candidates |-> "oserror"]

Machines == {NoHardware, IntelAmd, NoTool}

\* get_available_encoders: the text of "ffmpeg -encoders", or the exception
\* of subprocess.run when the tool cannot be started.
ListingResults == {"listed", "raise"}

\* The encoder names that occur in the listing of a build that has the
\* software encoders only.
StaticListing == {"libx264", "libx265", "libaom-av1", "aac"}

\* Faulty variant: prefers AMF to QSV.
pick_best_encoderAmfFirst(encoders) ==
  << IF "av1_nvenc" \in encoders THEN "av1_nvenc"
     ELSE IF "av1_amf" \in encoders THEN "av1_amf"
     ELSE IF "av1_qsv" \in encoders THEN "av1_qsv"
     ELSE "libxav1",
     IF "hevc_nvenc" \in encoders THEN "hevc_nvenc"
     ELSE IF "hevc_amf" \in encoders THEN "hevc_amf"
     ELSE IF "hevc_qsv" \in encoders THEN "hevc_qsv"
     ELSE "libx265",
     IF "h264_nvenc" \in encoders THEN "h264_nvenc"
     ELSE IF "h264_amf" \in encoders THEN "h264_amf"
     ELSE IF "h264_qsv" \in encoders THEN "h264_qsv"
     ELSE "libx264" >>

\* [bestav1, best_hevc, best264]
pick_best_encoder(encoders) ==
  << IF "av1_nvenc" \in encoders THEN "av1_nvenc"
     ELSE IF "av1_qsv" \in encoders THEN "av1_qsv"
     ELSE IF "av1_amf" \in encoders THEN "av1_amf"
     ELSE "libxav1",
     IF "hevc_nvenc" \in encoders THEN "hevc_nvenc"
     ELSE IF "hevc_qsv" \in encoders THEN "hevc_qsv"
     ELSE IF "hevc_amf" \in encoders THEN "hevc_amf"
     ELSE "libx265",
     IF "h264_nvenc" \in encoders THEN "h264_nvenc"
     ELSE IF "h264_qsv" \in encoders THEN "h264_qsv"
     ELSE IF "h264_amf" \in encoders THEN "h264_amf"
     ELSE "libx264" >>

\* ---------------------------------------------------------------- progress
\* Percentages are kept exact, as numerator over denominator.
Hundred == [num |-> 100, den |-> 1]

\* Faulty variant: reports the share that remains instead of the share completed.
PercentRemaining(count, total) ==
  IF total # 0 THEN [num |-> (total - count) * 100, den |-> total] ELSE Hundred

\* (count / total) * 100 if total else 100
Percent(count, total) ==
  IF total # 0 THEN [num |-> count * 100, den |-> total] ELSE Hundred

PLeq(p, q) == p.num * q.den <= q.num * p.den

PEq(p, q) == p.num * q.den = q.num * p.den

\* --------------------------------------------------------------------- run
\* The keys of the registry in dict order.
RegistryOrder == SelectSeq(WalkOrder, LAMBDA d : folders[d].present)

IdleLocals ==
  /\ best' = << "", "", "" >>
  /\ fi' = 0
  /\ folder' = ""
  /\ snapshot' = << >>
  /\ pos' = 0
  /\ num_files' = 0
  /\ processed_in_folder' = 0

\* Start button: run() up to the first folder.  The encoders are chosen
\* first: when the discovery raises, the static listing is used, and when
\* that raises too the exception ends the run thread.  With an empty
\* registry run shows the error box and returns.
StartRun ==
  /\ pc = "idle"
  /\ UNCHANGED aside
  /\ UserOp
  /\ \E trial \in Machines, listing \in ListingResults :
       IF DiscoveryRaises(trial) /\ listing = "raise"
       THEN /\ lastOp' = "start_crashed"
            /\ last' = NoLast
            /\ UNCHANGED << total_tasks, completed_tasks, pc, runLocals, histories >>
       ELSE LET enc_list == IF DiscoveryRaises(trial)
                            THEN StaticListing
                            ELSE getallmyencoders(trial)
            IN IF RegistryOrder = << >>
               THEN /\ lastOp' = "start_empty"
                    /\ last' = NoLast
                    /\ UNCHANGED << total_tasks, completed_tasks, pc, runLocals, histories >>
               ELSE /\ best' = pick_best_encoder(enc_list)
                    /\ total_tasks' = SumFiles(folders, 1)
                    /\ completed_tasks' = 0
                    /\ pc' = "folders"
                    /\ fi' = 1
                    /\ processed' = EmptyByDir
                    /\ globalSeq' = << >>
                    /\ folderSeq' = EmptyByDir
                    /\ last' = NoLast
                    /\ lastOp' = "start"
                    /\ UNCHANGED << folder, snapshot, pos, num_files, processed_in_folder >>
  /\ UNCHANGED << videos, stateFile, folders >>

\* One step of "for folder, data in folders.items()": skip a folder without
\* files, enter one with files, or leave the loop and report 100.
NextFolder ==
  /\ pc = "folders"
  /\ UNCHANGED aside
  /\ UNCHANGED ops
  /\ IF fi > Len(RegistryOrder)
     THEN /\ globalSeq' = Append(globalSeq, Hundred)
          /\ pc' = "done"
          /\ lastOp' = "all_done"
          /\ UNCHANGED << fi, folder, snapshot, pos, num_files, processed_in_folder >>
     ELSE LET d == RegistryOrder[fi]
              data == folders[d]
          IN IF data.files = << >>
             THEN /\ fi' = fi + 1
                  /\ lastOp' = "skip_folder"
                  /\ UNCHANGED << pc, folder, snapshot, pos, num_files,
                                  processed_in_folder, globalSeq >>
             ELSE /\ folder' = d
                  /\ num_files' = Len(data.files)
                  /\ processed_in_folder' = 0
                  /\ snapshot' = data.files
                  /\ pos' = 1
                  /\ pc' = "files"
                  /\ lastOp' = "enter_folder"
                  /\ UNCHANGED << fi, globalSeq >>
  /\ last' = NoLast
  /\ UNCHANGED << videos, stateFile, folders, total_tasks, completed_tasks, best,
                  processed, folderSeq >>

\* sub_idx = selected_sub.get().split(":")[1], None when there is no ":".
SubIdx(selected_sub) == IF selected_sub = SubDesc THEN "2" ELSE "None"

BitDepthResults == {"10bit", "8bit", "fail"}

ExtractResults == {"ok", "nonzero", "raise"}

BurnResults == {"ok", "nonzero", "raise"}

\* input_is_10bit: False when the probe raises.
Is10bit(bitdepth) == bitdepth = "10bit"

ChosenEncoder(is10, b) == IF is10 THEN b[2] ELSE b[3]

VfInitial(is10) == IF is10 THEN "subtitles=SUB" ELSE "format=yuv420p,subtitles=SUB"

\* sub_idx after the extraction block.
SubIdxAfter(sub_idx, extract) == IF extract = "raise" THEN "None" ELSE sub_idx

\* vf_option after the extraction block.
VfAfter(vf, sub_idx, extract) ==
  IF sub_idx = "None" \/ extract = "raise" THEN "" ELSE vf

\* Whether the temporary subtitle file exists when the burn starts.
SidecarAfterExtract(sub_idx, extract, partial) ==
  /\ sub_idx # "None"
  /\ \/ extract = "ok"
     \/ extract = "nonzero" /\ partial

\* Whether the try block of the burn reaches mark_done: subprocess.run is
\* called without check=True, so only a raised exception skips it.
BurnMarks(burn) == burn # "raise"

\* Whether the temporary subtitle file is still there after the burn block.
SidecarAfterBurn(sidecar, sub_idx, burn) ==
  sidecar /\ ~(burn # "raise" /\ sub_idx # "None")

\* Faulty variant: an exception of the burn ends the run.
AfterFileAbortsOnRaise(extract, burn) == IF burn = "raise" THEN "aborted" ELSE "files"

\* Where the file loop goes after a file: every exception of the burn is
\* caught, so it goes on with the next file.
AfterFile(extract, burn) == "files"

\* One iteration of "for f in list(data['files'])".
ProcessFile ==
  /\ pc = "files"
  /\ UNCHANGED aside
  /\ UNCHANGED ops
  /\ pos <= Len(snapshot)
  /\ \E bitdepth \in BitDepthResults, extract \in ExtractResults,
        partial \in BOOLEAN, burn \in BurnResults :
       LET f == snapshot[pos]
           sub0 == SubIdx(folders[folder].selected_sub)
           is10 == Is10bit(bitdepth)
           ext == IF sub0 = "None" THEN "skipped" ELSE extract
           sub1 == SubIdxAfter(sub0, ext)
           vf == VfAfter(VfInitial(is10), sub0, ext)
           sidecar == SidecarAfterExtract(sub0, ext, partial)
           marked == BurnMarks(burn)
           before == stateFile[folder]
           outdir == OutDir(folder)
       IN /\ sub0 = "None" => extract = "ok"
          /\ partial => (sub0 # "None" /\ extract = "nonzero")
          /\ stateFile' =
               IF marked
               THEN [stateFile EXCEPT ![folder] = mark_done(before, f)]
               ELSE stateFile
          /\ videos' =
               IF burn = "ok" /\ outdir \in Dirs
               THEN [videos EXCEPT ![outdir] = @ \cup {OutName(f)}]
               ELSE videos
          /\ processed_in_folder' = processed_in_folder + 1
          /\ completed_tasks' = completed_tasks + 1
          /\ folderSeq' =
               [folderSeq EXCEPT
                  ![folder] = Append(@, Percent(processed_in_folder + 1, num_files))]
          /\ globalSeq' = Append(globalSeq, Percent(completed_tasks + 1, total_tasks))
          /\ processed' = [processed EXCEPT ![folder] = Append(@, f)]
          /\ last' =
               [folder |-> folder, f |-> f, sub_idx |-> sub1,
                input_is_10bit |-> is10, extract |-> ext, burn |-> burn,
                chosen_encoder |-> ChosenEncoder(is10, best), vf_option |-> vf,
                marked |-> marked,
                was_finished |-> InSeq(f, before.finished),
                was_pending |-> InSeq(f, before.pending),
                had_state |-> before.exists,
                sidecar_left |-> SidecarAfterBurn(sidecar, sub1, burn)]
          /\ pc' = AfterFile(ext, burn)
          /\ pos' = pos + 1
  /\ lastOp' = "file"
  /\ UNCHANGED << folders, total_tasks, best, fi, folder, snapshot, num_files >>

\* The file loop of a folder is exhausted: restore cwd, log, next folder.
EndFolder ==
  /\ pc = "files"
  /\ UNCHANGED aside
  /\ UNCHANGED ops
  /\ pos > Len(snapshot)
  /\ pc' = "folders"
  /\ fi' = fi + 1
  /\ folder' = ""
  /\ snapshot' = << >>
  /\ pos' = 0
  /\ num_files' = 0
  /\ processed_in_folder' = 0
  /\ lastOp' = "end_folder"
  /\ last' = NoLast
  /\ UNCHANGED << videos, stateFile, folders, total_tasks, completed_tasks, best, histories >>

\* The "All folders done!" box is dismissed and the run thread ends.
RunExit ==
  /\ pc = "done"
  /\ UNCHANGED aside
  /\ UNCHANGED ops
  /\ pc' = "idle"
  /\ IdleLocals
  /\ lastOp' = "exit"
  /\ processed' = EmptyByDir
  /\ globalSeq' = << >>
  /\ folderSeq' = EmptyByDir
  /\ last' = NoLast
  /\ UNCHANGED << videos, stateFile, folders, total_tasks, completed_tasks >>

\* The application is closed during a run (the run thread is a daemon) and
\* started again: memory is as after start-up, the disk is as it was left.
Interrupt ==
  /\ pc \in {"folders", "files"}
  /\ UNCHANGED aside
  /\ UserOp
  /\ pc' = "idle"
  /\ IdleLocals
  /\ folders' = [d \in Dirs |-> NoFolder]
  /\ total_tasks' = 0
  /\ completed_tasks' = 0
  /\ processed' = EmptyByDir
  /\ globalSeq' = << >>
  /\ folderSeq' = EmptyByDir
  /\ last' = NoLast
  /\ lastOp' = "interrupt"
  /\ UNCHANGED << videos, stateFile >>

RunStep == NextFolder \/ ProcessFile \/ EndFolder \/ RunExit

Next ==
  \/ AddVideo
  \/ DeleteStateFile
  \/ select_folder
  \/ StartRun
  \/ NextFolder
  \/ ProcessFile
  \/ EndFolder
  \/ RunExit
  \/ Interrupt

Spec == Init /\ [][Next]_vars

\* Runs that are not cut short by closing the application.  The run thread
\* keeps being scheduled and every external tool call returns, so a run step
\* that stays enabled is eventually taken.
NextUninterrupted ==
  \/ AddVideo
  \/ DeleteStateFile
  \/ select_folder
  \/ StartRun
  \/ NextFolder
  \/ ProcessFile
  \/ EndFolder
  \/ RunExit

FairSpec == Init /\ [][NextUninterrupted]_vars /\ WF_vars(RunStep)

\* ------------------------------------------------ pick_best_encoder alone
\* pick_best_encoder is called once on any set of candidate encoders.
PickInit ==
  /\ FreshDisk
  /\ FreshMemory
  /\ available \in SUBSET Candidates
  /\ thr = [t \in Threads |-> NoThread]
  /\ ui = "idle"
  /\ NoDiscovery

PickBest ==
  /\ lastOp = "init"
  /\ best' = pick_best_encoder(available)
  /\ lastOp' = "pick"
  /\ UNCHANGED << videos, stateFile, folders, total_tasks, completed_tasks, pc, fi,
                  folder, snapshot, pos, num_files, processed_in_folder, histories,
                  last, ops, aside >>

PickNext == PickBest

PickSpec == PickInit /\ [][PickNext]_vars

\* ------------------------------------------- the threads, as they interleave
\* The Start button starts a new thread on run at every press, and Select
\* Folder runs on the UI thread whether or not a run is in progress.  The
\* steps of the run threads and of select_folder interleave; each thread
\* keeps its own locals of run in thr.
ConcInit ==
  /\ videos = [d \in Dirs |-> IF d \in SourceDirs THEN Names ELSE {}]
  /\ stateFile = [d \in Dirs |-> NoState]
  /\ FreshMemory
  /\ available = {}
  /\ thr = [t \in Threads |-> NoThread]
  /\ ui = "idle"
  /\ NoDiscovery

\* The run thread and the histories of the sequential specification are not
\* part of these behaviours.
ConcFrame ==
  UNCHANGED << pc, best, fi, folder, snapshot, pos, num_files, processed_in_folder,
               histories, last, lastOp, available, discovery >>

\* The pending list of every folder of the registry.
RegistryFiles == [d \in Dirs |-> IF folders[d].present THEN folders[d].files ELSE << >>]

\* select_folder up to folders.clear(); scan_folders comes next.
SelectClear ==
  /\ ui = "idle"
  /\ UserOp
  /\ folders' = [d \in Dirs |-> NoFolder]
  /\ ui' = "scanning"
  /\ ConcFrame
  /\ UNCHANGED << videos, stateFile, total_tasks, completed_tasks, thr >>

\* The rest of select_folder: scan_folders, folders.update(), the counters.
\* A probe that raises ends the callback with the registry left empty.
SelectUpdate ==
  /\ ui = "scanning"
  /\ UNCHANGED ops
  /\ \E probe \in [Dirs -> ProbeResults] :
       /\ \A d \in Dirs : d \notin Range(Qualifying) => probe[d] = "nosubs"
       /\ stateFile' =
            [d \in Dirs |->
               IF d \in ScanWritten(probe)
               THEN ScanSaved(stateFile[d], direct_videos(d))
               ELSE stateFile[d]]
       /\ IF FailAt(probe) = 0
          THEN /\ folders' = scan_folders(probe)
               /\ total_tasks' = SumFiles(scan_folders(probe), 1)
               /\ completed_tasks' = 0
          ELSE /\ UNCHANGED << folders, total_tasks, completed_tasks >>
  /\ ui' = "idle"
  /\ ConcFrame
  /\ UNCHANGED << videos, thr >>

\* The thread a press on Start creates: the first name not in use.
FreeThread(t) ==
  /\ thr[t].pc = "none"
  /\ t = "t2" => thr["t1"].pc # "none"

\* threaded_run: start run on a new thread, with no look at the threads
\* that are running.  run up to the first step of the iterator over
\* folders.items(), which remembers the size of the registry: no other
\* thread is scheduled between the creation of the iterator and its first
\* step.  The encoders chosen only shape the burn command (see ProcessFile)
\* and are not kept.
threaded_run(t) ==
  /\ ui = "idle"
  /\ FreeThread(t)
  /\ UserOp
  /\ \E trial \in Machines, listing \in ListingResults :
       IF DiscoveryRaises(trial) /\ listing = "raise"
       THEN UNCHANGED << thr, total_tasks, completed_tasks >>
       ELSE IF RegistryOrder = << >>
            THEN UNCHANGED << thr, total_tasks, completed_tasks >>
            ELSE LET d == RegistryOrder[1]
                     data == folders[d]
                     enters == data.files # << >>
                 IN thr' = [thr EXCEPT ![t] =
                              [pc |-> IF enters THEN "files" ELSE "folders",
                               used |-> Len(RegistryOrder),
                               fi |-> IF enters THEN 1 ELSE 2,
                               folder |-> IF enters THEN d ELSE "",
                               snapshot |-> data.files,
                               pos |-> IF enters THEN 1 ELSE 0,
                               began |-> RegistryFiles, handled |-> EmptyByDir]]
                 /\ total_tasks' = SumFiles(folders, 1)
                 /\ completed_tasks' = 0
  /\ ConcFrame
  /\ UNCHANGED << videos, stateFile, folders, ui >>

\* One step of the iterator over folders.items() in thread t.  The iterator
\* raises RuntimeError ("dictionary changed size during iteration") when the
\* registry has not the size it had when the loop began; nothing in run
\* catches it, so the thread ends.  Otherwise the iterator goes on at its
\* position in the registry as it is now.
ThreadNextFolder(t) ==
  /\ thr[t].pc = "folders"
  /\ UNCHANGED ops
  /\ IF thr[t].used # Len(RegistryOrder)
     THEN /\ thr' = [thr EXCEPT ![t].pc = "crashed"]
     ELSE IF thr[t].fi > Len(RegistryOrder)
          THEN /\ thr' = [thr EXCEPT ![t].pc = "done"]
          ELSE LET d == RegistryOrder[thr[t].fi]
                   data == folders[d]
               IN IF data.files = << >>
                  THEN /\ thr' = [thr EXCEPT ![t].fi = @ + 1]
                  ELSE /\ thr' = [thr EXCEPT ![t].folder = d,
                                             ![t].snapshot = data.files,
                                             ![t].pos = 1,
                                             ![t].pc = "files"]
  /\ ConcFrame
  /\ UNCHANGED << videos, stateFile, folders, total_tasks, completed_tasks, ui >>

\* One iteration of the file loop in thread t: the burn, mark_done unless
\* the burn raised, the global counter.
ThreadProcessFile(t) ==
  /\ thr[t].pc = "files"
  /\ UNCHANGED ops
  /\ thr[t].pos <= Len(thr[t].snapshot)
  /\ \E burn \in BurnResults :
       LET f == thr[t].snapshot[thr[t].pos]
           d == thr[t].folder
           outdir == OutDir(d)
       IN /\ stateFile' =
               IF BurnMarks(burn)
               THEN [stateFile EXCEPT ![d] = mark_done(stateFile[d], f)]
               ELSE stateFile
          /\ videos' =
               IF burn = "ok" /\ outdir \in Dirs
               THEN [videos EXCEPT ![outdir] = @ \cup {OutName(f)}]
               ELSE videos
          /\ completed_tasks' = completed_tasks + 1
          /\ thr' = [thr EXCEPT ![t].handled[d] = Append(@, f),
                                ![t].pos = @ + 1]
  /\ ConcFrame
  /\ UNCHANGED << folders, total_tasks, ui >>

ThreadEndFolder(t) ==
  /\ thr[t].pc = "files"
  /\ UNCHANGED ops
  /\ thr[t].pos > Len(thr[t].snapshot)
  /\ thr' = [thr EXCEPT ![t].pc = "folders",
                        ![t].fi = @ + 1,
                        ![t].folder = "",
                        ![t].snapshot = << >>,
                        ![t].pos = 0]
  /\ ConcFrame
  /\ UNCHANGED << videos, stateFile, folders, total_tasks, completed_tasks, ui >>

\* The thread is gone: after the "All folders done!" box, or after the
\* exception that ended it.
ThreadExit(t) ==
  /\ thr[t].pc \in {"done", "crashed"}
  /\ UNCHANGED ops
  /\ thr' = [thr EXCEPT ![t] = NoThread]
  /\ ConcFrame
  /\ UNCHANGED << videos, stateFile, folders, total_tasks, completed_tasks, ui >>

ConcNext ==
  \/ SelectClear
  \/ SelectUpdate
  \/ \E t \in Threads : threaded_run(t)
  \/ \E t \in Threads : ThreadNextFolder(t)
  \/ \E t \in Threads : ThreadProcessFile(t)
  \/ \E t \in Threads : ThreadEndFolder(t)
  \/ \E t \in Threads : ThreadExit(t)

ConcSpec == ConcInit /\ [][ConcNext]_vars

\* ------------------------------------------ getallmyencoders, its workers
\* One call of getallmyencoders: the pool (max_workers=3) runs test_group on
\* the three groups at once, the calling thread takes the results of the
\* futures in the order of the groups and merges them.  Dicts are kept as
\* sequences of << key, value >> in insertion order.
DictSet(dict, key, value) ==
  IF \E k \in 1..Len(dict) : dict[k][1] = key
  THEN [k \in 1..Len(dict) |-> IF dict[k][1] = key THEN << key, value >> ELSE dict[k]]
  ELSE Append(dict, << key, value >>)

\* dict.update(other)
RECURSIVE DictUpdate(_, _)
DictUpdate(dict, other) ==
  IF other = << >> THEN dict
  ELSE DictUpdate(DictSet(dict, Head(other)[1], Head(other)[2]), Tail(other))

\* [enc for enc, status in final_results.items() if status]
TrueEncodings(dict) ==
  LET kept == SelectSeq(dict, LAMBDA item : item[2])
  IN [k \in 1..Len(kept) |-> kept[k][1]]

\* The three tasks were submitted and every worker is about to test the
\* first encoder of its group.
DiscInit ==
  /\ FreshDisk
  /\ FreshMemory
  /\ available = {}
  /\ thr = [t \in Threads |-> NoThread]
  /\ ui = "idle"
  /\ workers = [g \in DOMAIN codec_groups |-> [pc |-> "running", i |-> 1, results |-> << >>]]
  /\ tests = [enc \in Candidates |-> << >>]
  /\ getall = "merging"
  /\ fut = 1
  /\ final_results = << >>
  /\ true_encodings = << >>

\* What getallmyencoders does not touch.
DiscFrame ==
  UNCHANGED << videos, stateFile, folders, total_tasks, completed_tasks, pc, best, fi,
               folder, snapshot, pos, num_files, processed_in_folder, histories, last,
               lastOp, ops, available, thr, ui >>

\* One iteration of test_group in the worker of group g: the trial encode of
\* the next encoder and results[name] = available, or the exception that
\* test_encoder does not catch, which ends the worker.
TestNext(g) ==
  /\ workers[g].pc = "running"
  /\ \E result \in TrialResults :
       LET enc == codec_groups[g][workers[g].i]
       IN /\ tests' = [tests EXCEPT ![enc] = Append(@, result)]
          /\ workers' =
               IF TrialRaises(result)
               THEN [workers EXCEPT ![g].pc = "raised"]
               ELSE [workers EXCEPT
                       ![g].results = DictSet(@, enc, test_encoder(result)),
                       ![g].i = @ + 1,
                       ![g].pc = IF workers[g].i = Len(codec_groups[g])
                                 THEN "done" ELSE "running"]
  /\ DiscFrame
  /\ UNCHANGED << getall, fut, final_results, true_encodings >>

\* final_results.update(future.result()) for the next future, once its
\* worker has ended; the exception of the worker is raised again here.
MergeFuture ==
  /\ getall = "merging"
  /\ fut <= Len(FamilyOrder)
  /\ LET g == FamilyOrder[fut]
     IN /\ workers[g].pc \in {"done", "raised"}
        /\ IF workers[g].pc = "raised"
           THEN /\ getall' = "shutdown"
                /\ UNCHANGED << fut, final_results >>
           ELSE /\ final_results' = DictUpdate(final_results, workers[g].results)
                /\ fut' = fut + 1
                /\ UNCHANGED getall
  /\ DiscFrame
  /\ UNCHANGED << workers, tests, true_encodings >>

\* The exception leaves the with block: the executor waits for the workers
\* that still run, then getallmyencoders raises.
RaiseAfterShutdown ==
  /\ getall = "shutdown"
  /\ \A g \in DOMAIN codec_groups : workers[g].pc \in {"done", "raised"}
  /\ getall' = "raised"
  /\ DiscFrame
  /\ UNCHANGED << workers, tests, fut, final_results, true_encodings >>

\* All three futures were merged: build and return true_encodings.
ReturnEncodings ==
  /\ getall = "merging"
  /\ fut > Len(FamilyOrder)
  /\ true_encodings' = TrueEncodings(final_results)
  /\ getall' = "returned"
  /\ DiscFrame
  /\ UNCHANGED << workers, tests, fut, final_results >>

DiscNext ==
  \/ \E g \in DOMAIN codec_groups : TestNext(g)
  \/ MergeFuture
  \/ RaiseAfterShutdown
  \/ ReturnEncodings

DiscSpec == DiscInit /\ [][DiscNext]_vars

\* ------------------------------------------------------------------ claims
Finished(d) == Range(stateFile[d].finished)

Pending(d) == Range(stateFile[d].pending)

NoDup(s) == \A i, j \in 1..Len(s) : s[i] = s[j] => i = j

\* C1: a file whose burn failed (the tool exited nonzero, or the call raised)
\* is not added to the persisted finished list of its folder and stays in
\* its pending list.
C1_FailedBurnStaysPending ==
  (lastOp = "file" /\ last.burn \in {"nonzero", "raise"} /\ ~last.was_finished)
    => /\ last.f \notin Finished(last.folder)
       /\ last.was_pending => last.f \in Pending(last.folder)

\* The files the run in progress had to process: the pending list of every
\* folder of the registry (the registry does not change during a run).
AllProcessed ==
  \A d \in Dirs :
    processed[d] = (IF folders[d].present THEN folders[d].files ELSE << >>)

\* C2: whatever the extraction and burn of each file do (success, nonzero
\* exit, exception), a run that was started processes every file of every
\* folder's pending snapshot and reaches the final "all done" step.
C2_BatchCompletes ==
  (pc \in {"folders", "files"}) ~> (pc = "done" /\ AllProcessed)

\* A run reached "all done" over two folders although a file of the first
\* folder failed with an exception and was left unmarked.
C2_Witness ==
  /\ pc = "done"
  /\ processed["R/F"] # << >>
  /\ processed["R/F-burned"] # << >>
  /\ \E f \in Range(processed["R/F"]) : f \notin Finished("R/F")

\* C3: in every reachable state the finished and pending lists of a folder
\* share no file name, in burn_state.json and in the registry record.
C3_Disjoint ==
  \A d \in Dirs :
    /\ Finished(d) \cap Pending(d) = {}
    /\ Range(folders[d].done) \cap Range(folders[d].files) = {}

\* A scan has loaded a state file that an earlier run had written with both
\* lists non-empty.
C3_Witness ==
  /\ lastOp = "scan"
  /\ \E d \in Dirs :
       /\ folders[d].done # << >>
       /\ folders[d].files # << >>
       /\ stateFile[d].finished # << >>
       /\ stateFile[d].pending # << >>

\* C4 (at its scan observation point): right after scan_folders, every video
\* directly inside a scanned folder is in exactly one of the folder's
\* persisted lists, pending or finished.
C4_Coverage ==
  lastOp = "scan" =>
    \A d \in Dirs :
      folders[d].present =>
        \A v \in videos[d] : (v \in Finished(d)) # (v \in Pending(d))

\* C5: run never processes a file that is already in the persisted finished
\* list of its folder.
C5_FinishedNeverReprocessed ==
  lastOp = "file" => ~last.was_finished

\* C6: right after scan_folders, the state file of every scanned folder
\* holds the same pending and finished lists as the record returned for it.
C6_ScanWritesBack ==
  lastOp = "scan" =>
    \A d \in Dirs :
      folders[d].present =>
        /\ stateFile[d].exists
        /\ stateFile[d].pending = folders[d].files
        /\ stateFile[d].finished = folders[d].done

\* C7: a scan that loads a state file with an empty pending list yields as
\* pending exactly the folder's videos that are not finished; a scan that
\* finds no state file yields finished = [] and pending = all the videos.
C7_Reconciliation ==
  [][ lastOp' = "scan" =>
        \A d \in Dirs :
          folders'[d].present =>
            /\ (stateFile[d].exists /\ stateFile[d].pending = << >>) =>
                 /\ Range(folders'[d].files) = videos[d] \ Finished(d)
                 /\ NoDup(folders'[d].files)
                 /\ folders'[d].done = stateFile[d].finished
            /\ ~stateFile[d].exists =>
                 /\ folders'[d].done = << >>
                 /\ Range(folders'[d].files) = videos[d]
                 /\ NoDup(folders'[d].files) ]_vars

\* A scan recomputed a non-empty pending list for a folder whose state file
\* has finished files and an empty pending list.
C7_Witness ==
  /\ lastOp = "scan"
  /\ \E d \in Dirs :
       /\ folders[d].present
       /\ stateFile[d].finished # << >>
       /\ stateFile[d].pending = << >>
       /\ folders[d].files # << >>

Occurrences(s, x) == Cardinality({ i \in 1..Len(s) : s[i] = x })

C9_MarkDoneFrame ==
  [][ (lastOp' = "file" /\ last'.marked) =>
        LET d == last'.folder
            f == last'.f
            old == stateFile[d]
            new == stateFile'[d]
        IN /\ new.exists
           /\ new.finished =
                (IF f \in Range(old.finished) THEN old.finished ELSE old.finished \o << f >>)
           /\ new.pending = SelectSeq(old.pending, LAMBDA g : g # f)
           /\ \A e \in Dirs \ {d} : stateFile'[e] = stateFile[e] ]_vars

\* mark_done ran for a folder whose state file was missing.
C9_Witness ==
  /\ lastOp = "file"
  /\ last.marked
  /\ ~last.had_state
  /\ stateFile[last.folder] = [exists |-> TRUE, finished |-> << last.f >>, pending |-> << >>]

NonDecreasing(s) == \A i \in 1..(Len(s) - 1) : PLeq(s[i], s[i + 1])

\* C10: the global percentages a run emits never decrease and end at 100
\* once the run is done, each folder's percentages never decrease, and with
\* a total of zero tasks every global percentage emitted is 100.
C10_ProgressMonotone ==
  /\ NonDecreasing(globalSeq)
  /\ \A d \in Dirs : NonDecreasing(folderSeq[d])
  /\ pc = "done" => (globalSeq # << >> /\ PEq(globalSeq[Len(globalSeq)], Hundred))
  /\ (pc = "done" /\ total_tasks > 0) =>
       (Len(globalSeq) >= 2 /\ PEq(globalSeq[Len(globalSeq) - 1], Hundred))
  /\ (pc # "idle" /\ total_tasks = 0) =>
       \A i \in 1..Len(globalSeq) : PEq(globalSeq[i], Hundred)

\* A run over two folders and at least two files is done: it emitted a
\* percentage below 100 and ended at 100.
C10_Witness ==
  /\ pc = "done"
  /\ total_tasks >= 2
  /\ folderSeq["R/F"] # << >>
  /\ folderSeq["R/F-burned"] # << >>
  /\ ~PEq(globalSeq[1], Hundred)
  /\ PEq(globalSeq[Len(globalSeq)], Hundred)

\* C11: after the i-th file of a folder whose snapshot has n files the folder
\* percentage emitted is i/n*100, the per-folder and the global counter have
\* each grown by one per processed file, the global percentage is
\* completed/total*100, and a file whose burn failed (nonzero exit or
\* exception) has advanced the counters without entering finished.
C11_CompletionEvent ==
  lastOp = "file" =>
    LET d == last.folder
        i == Len(processed[d])
        n == Len(snapshot)
    IN /\ processed_in_folder = i
       /\ Len(folderSeq[d]) = i
       /\ PEq(folderSeq[d][i], [num |-> i * 100, den |-> n])
       /\ completed_tasks = Len(globalSeq)
       /\ PEq(globalSeq[Len(globalSeq)], [num |-> completed_tasks * 100, den |-> total_tasks])
       /\ (last.burn \in {"nonzero", "raise"} /\ ~last.was_finished)
            => last.f \notin Finished(d)

\* C12: when the processing of a file ends, no temporary subtitle file that
\* was created for it exists any more, whether the burn succeeded, exited
\* nonzero or raised.
C12_SidecarCleanup ==
  lastOp = "file" => ~last.sidecar_left

\* Whether the burn command carries a subtitles= filter on the sidecar.
HasSubtitleFilter(vf) == vf \in {"subtitles=SUB", "format=yuv420p,subtitles=SUB"}

\* C13: whenever the subtitle extraction of a file failed (it raised, or the
\* tool exited nonzero), the burn still ran, its command carried no subtitle
\* filter on the sidecar, and no sidecar remains afterwards.
C13_ExtractionFailure ==
  (lastOp = "file" /\ last.extract \in {"raise", "nonzero"}) =>
    /\ last.burn \in BurnResults
    /\ ~HasSubtitleFilter(last.vf_option)
    /\ ~last.sidecar_left

\* C14: the output directory F-burned of a source folder F is never a work
\* folder of the registry, so no burned output is a pending input.
C14_BurnedNotRescanned ==
  \A s \in SourceDirs :
    OutDir(s) \in Dirs =>
      /\ ~folders[OutDir(s)].present
      /\ \A f \in Range(folders[OutDir(s)].files) : f \notin videos[OutDir(s)]

\* Whether the filter chain forces the standard pixel format.
ForcesFormat(vf) == vf = "format=yuv420p,subtitles=SUB"

\* C15: a file probed as 10-bit is burned with the HEVC choice and a filter
\* chain that forces no pixel format; a file probed as 8-bit (or whose probe
\* failed) is burned with the H264 choice and a filter chain that forces
\* format=yuv420p; whatever the subtitle selection is.
C15_BitDepthRouting ==
  lastOp = "file" =>
    IF last.input_is_10bit
    THEN last.chosen_encoder = best[2] /\ ~ForcesFormat(last.vf_option)
    ELSE last.chosen_encoder = best[3] /\ ForcesFormat(last.vf_option)

\* The first name of a preference order that is available, else the fallback.
RECURSIVE FirstAvailable(_, _, _)
FirstAvailable(order, avail, fallback) ==
  IF order = << >> THEN fallback
  ELSE IF Head(order) \in avail THEN Head(order)
       ELSE FirstAvailable(Tail(order), avail, fallback)

\* The identifiers of a family in the order NVENC, QSV, AMF.
Preference(family) == << family \o "_nvenc", family \o "_qsv", family \o "_amf" >>

\* C16: for every subset of the candidates, pick_best_encoder returns for
\* AV1, HEVC and H264 the first available identifier in the order NVENC, QSV,
\* AMF, and the family's software fallback when none is available; names in
\* the list that are no candidates do not change the result.
C16_EncoderPreference ==
  /\ lastOp = "pick" =>
       best = << FirstAvailable(Preference("av1"), available, "libxav1"),
                 FirstAvailable(Preference("hevc"), available, "libx265"),
                 FirstAvailable(Preference("h264"), available, "libx264") >>
  /\ \A others \in SUBSET StaticListing :
       pick_best_encoder(available \cup others) = pick_best_encoder(available)

\* pick_best_encoder was applied to {hevc_qsv, hevc_amf} and chose hevc_qsv,
\* with the software fallbacks for AV1 and H264.
C16_Witness ==
  /\ lastOp = "pick"
  /\ available = {"hevc_qsv", "hevc_amf"}
  /\ best = << "libxav1", "hevc_qsv", "libx264" >>

\* C17: whatever the trial encodes and the listing do (timeout, error exit,
\* tool that cannot be started), a press on Start with a non-empty registry
\* reaches encoder selection and enters the folder loop.
C17_DiscoveryNeverFatal ==
  [][ (pc = "idle" /\ RegistryOrder # << >>
         /\ lastOp' \in {"start", "start_empty", "start_crashed"})
        => /\ pc' = "folders"
           /\ \E enc_list \in SUBSET Candidates : best' = pick_best_encoder(enc_list) ]_vars

\* C18: after Select Folder every directory that directly holds a video is
\* in the registry, whatever the stream probes did, and a file whose
\* bit-depth probe failed is processed as 8-bit.
C18_ProbeFailureDegrades ==
  /\ lastOp \in {"scan", "scan_failed"} =>
       \A d \in Range(Qualifying) : folders[d].present
  /\ ~Is10bit("fail")
  /\ lastOp = "file" => last.burn \in BurnResults

\* Thread t is in the middle of the file loop: it is extracting or burning
\* the file at its position in the snapshot.
Burning(t) == thr[t].pc = "files" /\ thr[t].pos <= Len(thr[t].snapshot)

\* C19: at most one run thread is inside the folder loop at any moment, and
\* no two threads are burning the same file of the same folder at once.
C19_OneRunActive ==
  /\ Cardinality({ t \in Threads : thr[t].pc \in {"folders", "files"} }) <= 1
  /\ \A t, u \in Threads :
       (t # u /\ Burning(t) /\ Burning(u)) =>
         ~(/\ thr[t].folder = thr[u].folder
           /\ thr[t].snapshot[thr[t].pos] = thr[u].snapshot[thr[u].pos])

IsPrefix(s, w) == Len(s) <= Len(w) /\ \A i \in 1..Len(s) : s[i] = w[i]

\* C20: a run thread processes the files that were pending when it began, in
\* their order, each once and nothing else, and when it has ended it has
\* processed all of them; whatever select_folder does meanwhile.
C20_SnapshotProcessing ==
  \A t \in Threads :
    /\ \A d \in Dirs : IsPrefix(thr[t].handled[d], thr[t].began[d])
    /\ thr[t].pc \in {"done", "crashed"} => thr[t].handled = thr[t].began

\* The keys of a dict.
Keys(dict) == { dict[k][1] : k \in 1..Len(dict) }

\* C21: in every interleaving of the three workers each candidate is tested
\* at most once, by the worker of its own family and in the order of its
\* group, a worker's mapping holds only encoders of its own group with the
\* outcome of their own trial, and a list that getallmyencoders returns
\* holds, without repetition, exactly the candidates whose trial succeeded,
\* every candidate having been tested exactly once.
C21_DiscoveryInterleaving ==
  /\ \A enc \in Candidates : Len(tests[enc]) <= 1
  /\ \A g \in DOMAIN codec_groups :
       /\ Keys(workers[g].results) \subseteq Range(codec_groups[g])
       /\ \A k \in 1..Len(workers[g].results) :
            LET item == workers[g].results[k]
            IN /\ item[1] = codec_groups[g][k]
               /\ tests[item[1]] # << >>
               /\ item[2] = (tests[item[1]] = << "ok" >>)
       /\ \A k \in 2..Len(codec_groups[g]) :
            tests[codec_groups[g][k]] # << >> => tests[codec_groups[g][k - 1]] # << >>
  /\ getall = "returned" =>
       /\ \A enc \in Candidates : Len(tests[enc]) = 1
       /\ Range(true_encodings) = { enc \in Candidates : tests[enc] = << "ok" >> }
       /\ NoDup(true_encodings)

\* getallmyencoders returned a list with encoders of two families while
\* trials of other candidates timed out or exited with an error.
C21_Witness ==
  /\ getall = "returned"
  /\ true_encodings = << "hevc_amf", "hevc_qsv", "h264_amf" >>
  /\ tests["av1_nvenc"] = << "timeout" >>
  /\ tests["h264_nvenc"] = << "error" >>

\* C22: two distinct pending files of a folder have distinct output names,
\* and a run never writes two distinct inputs of a folder to one output.
C22_OneOutputPerInput ==
  \A d \in Dirs :
    /\ \A f, g \in Range(folders[d].files) : f # g => OutName(f) # OutName(g)
    /\ \A f, g \in Range(processed[d]) : f # g => OutName(f) # OutName(g)

====
